---- MODULE Spec2Model ----
(***************************************************************************)
(* A model of CodeManager (src/src/codeManager.ts): one session of the     *)
(* code runner, its event handlers (run, runCustomCommand, stop, the       *)
(* terminal-close notification, the continuations of save and of the       *)
(* terminal clear, the close event of a child process), and the pure       *)
(* functions that resolve an executor and build the final command.         *)
(*                                                                         *)
(* Strings are sequences of one-character strings, so that the regular     *)
(* expressions and replacements of the source are computed, not assumed.   *)
(* JavaScript's null and undefined are the one-element sequences Null and  *)
(* Undefined, which no real string equals (a real string holds only        *)
(* one-character elements).                                                *)
(***************************************************************************)
EXTENDS Naturals, Sequences, FiniteSets, TLC

VARIABLES
    terminal,       \* this._terminal: 0 is null, otherwise the terminal's number
    isRunning,      \* this._isRunning (undefined counts as FALSE)
    process,        \* this._process: 0 is undefined, otherwise the child's number
    codeFile,       \* this._codeFile
    isTmpFile,      \* this._isTmpFile (undefined counts as FALSE)
    languageId,     \* this._languageId
    cwd,            \* this._cwd
    config,         \* this._config: the configuration snapshot of the last initialize
    procs,          \* the child processes exec has started, in order
    saves,          \* the save promises not yet settled, with their continuations
    clears,         \* the executeCommandInTerminal calls suspended on the awaited clear
    files,          \* the temporary files on disk
    unlinked,       \* the paths handed to fs.unlink, in order
    sends,          \* the calls of Terminal.show and Terminal.sendText, in order
    nTerminals,     \* the number of terminals createTerminal has made
    nRuns,          \* the number of run/runCustomCommand calls that reached initialize
    event,          \* the last handler: its name, its outcome, the mode its inputs ask for
    pin             \* the inputs and the result of the pure function under check

vars == << terminal, isRunning, process, codeFile, isTmpFile,
           languageId, cwd, config, procs, saves, clears, files, unlinked, sends,
           nTerminals, nRuns, event, pin >>

(***************************************************************************)
(* Strings                                                                 *)
(***************************************************************************)
Null == << "null" >>
Undefined == << "undefined" >>
TypeError == << "TypeError" >>

\* JavaScript's truthiness of a string-or-nothing value.
Truthy(s) == s # Null /\ s # Undefined /\ s # << >>

\* x == null
IsNullish(x) == x = Null \/ x = Undefined

\* Whether pat occurs in s at position i.
MatchesAt(s, i, pat) ==
    /\ i + Len(pat) - 1 <= Len(s)
    /\ SubSeq(s, i, i + Len(pat) - 1) = pat

RECURSIVE ReplaceFrom(_, _, _, _)
ReplaceFrom(s, i, pat, rep) ==
    IF i > Len(s) THEN << >>
    ELSE IF MatchesAt(s, i, pat)
         THEN rep \o ReplaceFrom(s, i + Len(pat), pat, rep)
         ELSE << s[i] >> \o ReplaceFrom(s, i + 1, pat, rep)

\* String.prototype.replace with a global regular expression of one literal:
\* every occurrence, leftmost first, not overlapping.
replace(s, pat, rep) == ReplaceFrom(s, 1, pat, rep)

\* s.indexOf(pat) > -1
Contains(s, pat) == \E i \in 1..Len(s) : MatchesAt(s, i, pat)

\* The last position of s holding a character of chars, 0 when there is none.
lastIndexOf(s, chars) ==
    LET at == { i \in 1..Len(s) : s[i] \in chars }
    IN  IF at = {} THEN 0 ELSE CHOOSE i \in at : \A j \in at : j <= i

\* The path separators the regular expressions [\/\\] accept.
Separators == { "/", "\\" }

DQ == << "\"" >>

\* The six placeholders.
PWorkspaceRoot == << "$", "w", "o", "r", "k", "s", "p", "a", "c", "e", "R", "o", "o", "t" >>
PFileNameWithoutExt ==
    << "$", "f", "i", "l", "e", "N", "a", "m", "e", "W", "i", "t", "h", "o", "u", "t", "E", "x", "t" >>
PFullFileName == << "$", "f", "u", "l", "l", "F", "i", "l", "e", "N", "a", "m", "e" >>
PFileName == << "$", "f", "i", "l", "e", "N", "a", "m", "e" >>
PDirWithoutTrailingSlash ==
    << "$", "d", "i", "r", "W", "i", "t", "h", "o", "u", "t", "T", "r", "a", "i", "l", "i", "n", "g",
       "S", "l", "a", "s", "h" >>
PDir == << "$", "d", "i", "r" >>

(***************************************************************************)
(* The command builder                                                     *)
(***************************************************************************)

\* path.match(/.*[\/\\](.*)/): the text after the last separator. No separator:
\* match returns null and reading regexMatch.length throws.
getCodeBaseFile(path) ==
    LET sep == lastIndexOf(path, Separators)
    IN  IF sep = 0 THEN TypeError ELSE SubSeq(path, sep + 1, Len(path))

\* path.match(/.*[\/\\](.*(?=\..*))/): the greedy group ends before the last "."
\* of the path and starts after the last separator left of that ".". No such
\* separator (also: no "." at all): match returns null and .length throws.
getCodeFileWithoutDirAndExt(path) ==
    LET dot == lastIndexOf(path, { "." })
        sep == IF dot = 0 THEN 0 ELSE lastIndexOf(SubSeq(path, 1, dot - 1), Separators)
    IN  IF sep = 0 THEN TypeError ELSE SubSeq(path, sep + 1, dot - 1)

\* path.match(/(.*[\/\\]).*/): the text up to and with the last separator.
getCodeFileDir(path) ==
    LET sep == lastIndexOf(path, Separators)
    IN  IF sep = 0 THEN TypeError ELSE SubSeq(path, 1, sep)

\* getCodeFileDir().replace(/[\/\\]$/, "")
getCodeFileDirWithoutTrailingSlash(path) ==
    LET dir == getCodeFileDir(path)
    IN  IF dir = TypeError THEN TypeError
        ELSE IF Len(dir) > 0 /\ dir[Len(dir)] \in Separators
             THEN SubSeq(dir, 1, Len(dir) - 1)
             ELSE dir

quoteFileName(fileName) == DQ \o fileName \o DQ

getWorkspaceRoot(codeFileDir, rootPath) ==
    IF Truthy(rootPath) THEN rootPath ELSE codeFileDir

\* The placeholders array, in the order of the source.
Placeholders(path, rootPath) ==
    << [regex |-> PWorkspaceRoot, replaceValue |-> getWorkspaceRoot(getCodeFileDir(path), rootPath)],
       [regex |-> PFileNameWithoutExt, replaceValue |-> getCodeFileWithoutDirAndExt(path)],
       [regex |-> PFullFileName, replaceValue |-> quoteFileName(path)],
       [regex |-> PFileName, replaceValue |-> getCodeBaseFile(path)],
       [regex |-> PDirWithoutTrailingSlash,
        replaceValue |-> quoteFileName(getCodeFileDirWithoutTrailingSlash(path))],
       [regex |-> PDir, replaceValue |-> quoteFileName(getCodeFileDir(path))] >>

RECURSIVE ReplaceEach(_, _, _)
\* placeholders.forEach(cmd = cmd.replace(regex, replaceValue)), from the k-th on.
ReplaceEach(cmd, placeholders, k) ==
    IF k > Len(placeholders) THEN cmd
    ELSE ReplaceEach(replace(cmd, placeholders[k].regex, placeholders[k].replaceValue),
                     placeholders, k + 1)

\* Building the placeholders array throws when one of the three matches of the
\* code file path returns null.
PlaceholdersThrow(path) ==
    \/ getCodeFileDir(path) = TypeError
    \/ getCodeFileWithoutDirAndExt(path) = TypeError
    \/ getCodeBaseFile(path) = TypeError

\* The mutant of getFinalCommandToRunCodeFile: $fileName is replaced before
\* $fileNameWithoutExt and $dir before $dirWithoutTrailingSlash.
getFinalCommandShortFirst(executor, appendFile, path, rootPath) ==
    IF Truthy(path) /\ PlaceholdersThrow(path) THEN TypeError
    ELSE LET ph == Placeholders(path, rootPath)
             cmd == IF Truthy(path)
                    THEN ReplaceEach(executor,
                                     << ph[1], ph[4], ph[2], ph[3], ph[6], ph[5] >>, 1)
                    ELSE executor
         IN  IF cmd # executor THEN cmd
             ELSE executor \o (IF appendFile THEN << " " >> \o quoteFileName(path) ELSE << >>)

\* getFinalCommandToRunCodeFile with this._codeFile = path and
\* vscode.workspace.rootPath = rootPath: the command, or TypeError when it throws.
getFinalCommandToRunCodeFile(executor, appendFile, path, rootPath) ==
    IF Truthy(path) /\ PlaceholdersThrow(path) THEN TypeError
    ELSE LET cmd == IF Truthy(path)
                    THEN ReplaceEach(executor, Placeholders(path, rootPath), 1)
                    ELSE executor
         IN  IF cmd # executor THEN cmd
             ELSE executor \o (IF appendFile THEN << " " >> \o quoteFileName(path) ELSE << >>)

(***************************************************************************)
(* The platform adapters                                                   *)
(***************************************************************************)

\* os.platform() of the host.
Platform == "linux"

\* What the tests on terminal.integrated.shell.windows see of the shell name:
\* "none" (not set), "powershell", "bash-windows" (holds "bash" and "windows"),
\* or "other".
WindowsShell == "none"

\* The letters the model's paths use that toLowerCase changes.
toLowerCase(c) == IF c = "C" THEN "c" ELSE IF c = "D" THEN "d" ELSE c

DriveLetters == { "C", "D", "c", "d" }

\* String.prototype.replace with a string pattern: the first occurrence only.
RECURSIVE ReplaceFirstFrom(_, _, _, _)
ReplaceFirstFrom(s, i, pat, rep) ==
    IF i > Len(s) THEN << >>
    ELSE IF MatchesAt(s, i, pat)
         THEN rep \o SubSeq(s, i + Len(pat), Len(s))
         ELSE << s[i] >> \o ReplaceFirstFrom(s, i + 1, pat, rep)

Amp == << "&", "&" >>
PsIf == << ";", " ", "i", "f", " ", "(", "$", "?", ")", " ", "{" >>

changeExecutorFromCmdToPs(executor) ==
    IF /\ Platform = "win32"
       /\ WindowsShell = "powershell"
       /\ Contains(executor, << " " >> \o Amp \o << " " >>)
    THEN LET e1 == ReplaceFirstFrom(executor, 1, Amp, PsIf)
             e2 == replace(e1, Amp, << "}", " " >> \o PsIf)
             e3 == replace(e2, PDir \o PFileNameWithoutExt, << ".", "\\" >> \o PFileNameWithoutExt)
         IN  e3 \o << " ", "}" >>
    ELSE executor

RECURSIVE ReplaceDrivesFrom(_, _, _)
\* command.replace(/([A-Za-z]):\\/g, prefix + lower-case letter + "/")
ReplaceDrivesFrom(s, i, prefix) ==
    IF i > Len(s) THEN << >>
    ELSE IF s[i] \in DriveLetters /\ MatchesAt(s, i + 1, << ":", "\\" >>)
         THEN prefix \o << toLowerCase(s[i]), "/" >> \o ReplaceDrivesFrom(s, i + 3, prefix)
         ELSE << s[i] >> \o ReplaceDrivesFrom(s, i + 1, prefix)

changeFilePathForBashOnWindows(command, terminalRoot) ==
    IF Platform = "win32" /\ WindowsShell # "none" /\ Truthy(terminalRoot)
    THEN replace(ReplaceDrivesFrom(command, 1, terminalRoot), << "\\" >>, << "/" >>)
    ELSE IF Platform = "win32" /\ WindowsShell = "bash-windows"
         THEN replace(ReplaceDrivesFrom(command, 1, << "/", "m", "n", "t", "/" >>),
                      << "\\" >>, << "/" >>)
         ELSE command

(***************************************************************************)
(* Paths                                                                   *)
(***************************************************************************)

\* path.dirname of the host (POSIX): the text before the last "/".
dirname(path) ==
    LET sep == lastIndexOf(path, { "/" })
    IN  IF sep = 0 THEN << "." >>
        ELSE IF sep = 1 THEN << "/" >>
        ELSE SubSeq(path, 1, sep - 1)

\* path.join(folder, name) for a name without separators.
join(folder, name) ==
    IF folder = << "." >> \/ folder = << >> THEN name
    ELSE IF folder[Len(folder)] = "/" THEN folder \o name
    ELSE folder \o << "/" >> \o name

\* getFileExtension: fileName from its last "." on, "" when it has none.
getFileExtension(fileName) ==
    LET index == lastIndexOf(fileName, { "." })
    IN  IF index # 0 THEN SubSeq(fileName, index, Len(fileName)) ELSE << >>

(***************************************************************************)
(* The executor resolver                                                   *)
(***************************************************************************)

\* map[key] of a JavaScript object: undefined for a key it does not hold.
Lookup(map, key) == IF key \in DOMAIN map THEN map[key] ELSE Undefined

\* The mutant of getExecutor: the extension match does not become the
\* language id.
getExecutorKeepsLanguage(cfg, docLanguageId, langArg, fileExtension) ==
    LET l1 == IF langArg = Null THEN docLanguageId ELSE langArg
        e1 == Lookup(cfg.executorMap, l1)
        byExt == IsNullish(e1) /\ Truthy(fileExtension)
        e2 == IF byExt THEN Lookup(cfg.executorMapByFileExtension, fileExtension) ELSE e1
        l3 == IF IsNullish(e2) THEN cfg.defaultLanguage ELSE l1
        e3 == IF IsNullish(e2) THEN Lookup(cfg.executorMap, l3) ELSE e2
    IN  [executor |-> e3, languageId |-> l3]

\* getExecutor(languageId, fileExtension) under configuration cfg with the
\* active document's language id docLanguageId: the executor it returns and
\* the this._languageId it leaves.
getExecutor(cfg, docLanguageId, langArg, fileExtension) ==
    LET l1 == IF langArg = Null THEN docLanguageId ELSE langArg
        e1 == Lookup(cfg.executorMap, l1)
        byExt == IsNullish(e1) /\ Truthy(fileExtension)
        e2 == IF byExt THEN Lookup(cfg.executorMapByFileExtension, fileExtension) ELSE e1
        l2 == IF byExt /\ ~IsNullish(e2) THEN fileExtension ELSE l1
        l3 == IF IsNullish(e2) THEN cfg.defaultLanguage ELSE l2
        e3 == IF IsNullish(e2) THEN Lookup(cfg.executorMap, l3) ELSE e2
    IN  [executor |-> e3, languageId |-> l3]

(***************************************************************************)
(* The environment of the session                                          *)
(***************************************************************************)

\* The bound on the invocations of run and runCustomCommand that reach
\* initialize (those rejected before it change nothing and are free).
MaxRuns == 2

\* vscode.workspace.rootPath and os.tmpdir().
RootPath == << "/", "r" >>
TmpDir == << "/", "t" >>

FileA == << "/", "w", "/", "a", ".", "p" >>
FileM == << "/", "w", "/", "m" >>
LangP == << "p" >>
LangK == << "k" >>

NoEditor ==
    [none |-> TRUE, fileName |-> Undefined, isUntitled |-> FALSE, selEmpty |-> TRUE,
     languageId |-> Undefined]

\* The editors the user can have active: a.p with and without a selection, the
\* file m (no extension, a language without executor), an untitled document.
Editors ==
    { NoEditor,
      [none |-> FALSE, fileName |-> FileA, isUntitled |-> FALSE, selEmpty |-> TRUE,
       languageId |-> LangP],
      [none |-> FALSE, fileName |-> FileA, isUntitled |-> FALSE, selEmpty |-> FALSE,
       languageId |-> LangP],
      [none |-> FALSE, fileName |-> FileM, isUntitled |-> FALSE, selEmpty |-> TRUE,
       languageId |-> LangK],
      [none |-> FALSE, fileName |-> << "U" >>, isUntitled |-> TRUE, selEmpty |-> TRUE,
       languageId |-> LangP] }

\* The language ids run is called with: null (run) or a key of executorMap
\* (runByLanguage).
LangArgs == { Null, LangP }

BaseSettings ==
    [runInTerminal |-> FALSE, saveAllFilesBeforeRun |-> FALSE, saveFileBeforeRun |-> FALSE,
     clearPreviousOutput |-> FALSE, fileDirectoryAsCwd |-> FALSE, ignoreSelection |-> FALSE,
     cwd |-> << >>, defaultLanguage |-> << >>, customCommand |-> << "c" >>,
     terminalRoot |-> << >>,
     executorMap |-> (LangP :> << "r" >>),
     executorMapByFileExtension |-> (<< ".", "q" >> :> << "x" >>),
     languageIdToFileExtensionMap |-> (LangP :> << ".", "p" >>)]

\* The configurations the user can have set.
SettingsSet ==
    { BaseSettings,
      [BaseSettings EXCEPT !.saveFileBeforeRun = TRUE, !.ignoreSelection = TRUE,
                           !.cwd = << "/", "c" >>],
      [BaseSettings EXCEPT !.runInTerminal = TRUE],
      [BaseSettings EXCEPT !.runInTerminal = TRUE, !.clearPreviousOutput = TRUE,
                           !.fileDirectoryAsCwd = TRUE],
      [BaseSettings EXCEPT !.runInTerminal = TRUE, !.saveAllFilesBeforeRun = TRUE] }

\* Math.random names: taken as fresh for every temporary file.
Letters == << "a", "b", "c", "d", "e", "f", "g", "h" >>
rndName(n) == << Letters[n] >>

(***************************************************************************)
(* The session: the handlers as functions of the session's state s         *)
(***************************************************************************)

Session ==
    [terminal |-> terminal, isRunning |-> isRunning, process |-> process,
     codeFile |-> codeFile, isTmpFile |-> isTmpFile, languageId |-> languageId,
     cwd |-> cwd, config |-> config, procs |-> procs, saves |-> saves, clears |-> clears,
     files |-> files, unlinked |-> unlinked, sends |-> sends, nTerminals |-> nTerminals,
     nRuns |-> nRuns, out |-> "none"]

\* The handler op ends in state s; would is the dispatch mode its inputs ask for.
Commit(s, op, would) ==
    /\ terminal' = s.terminal
    /\ isRunning' = s.isRunning
    /\ process' = s.process
    /\ codeFile' = s.codeFile
    /\ isTmpFile' = s.isTmpFile
    /\ languageId' = s.languageId
    /\ cwd' = s.cwd
    /\ config' = s.config
    /\ procs' = s.procs
    /\ saves' = s.saves
    /\ clears' = s.clears
    /\ files' = s.files
    /\ unlinked' = s.unlinked
    /\ sends' = s.sends
    /\ nTerminals' = s.nTerminals
    /\ nRuns' = s.nRuns
    /\ event' = [op |-> op, out |-> s.out, would |-> would]

initialize(s, editor, cfg) ==
    LET byFile == /\ cfg.fileDirectoryAsCwd \/ ~Truthy(RootPath)
                  /\ ~editor.none
                  /\ ~editor.isUntitled
        c2 == IF byFile THEN dirname(editor.fileName) ELSE RootPath
    IN  [s EXCEPT !.config = cfg,
                  !.cwd = IF Truthy(cfg.cwd) THEN cfg.cwd
                          ELSE IF Truthy(c2) THEN c2 ELSE TmpDir]

\* The rest of executeCommandInTerminal from the optional cd on: straight on,
\* or as the continuation of the awaited clear. It reads this._config,
\* this._cwd and this._terminal as they are then; sendText on null throws.
sendCommand(s, command, inv) ==
    IF s.terminal = 0 THEN [s EXCEPT !.out = "sendThrew"]
    ELSE LET cd == [run |-> inv.run, term |-> s.terminal, kind |-> "cd",
                    text |-> << "c", "d", " " >>
                             \o quoteFileName(changeFilePathForBashOnWindows(
                                                  s.cwd, s.config.terminalRoot))]
             cmd == [run |-> inv.run, term |-> s.terminal, kind |-> "cmd", text |-> command]
         IN  [s EXCEPT !.sends = @ \o (IF s.config.fileDirectoryAsCwd THEN << cd >> ELSE << >>)
                                   \o << cmd >>,
                       !.out = "sent"]

\* The mutant of executeCommandInTerminal: a terminal is created on every call.
executeCommandInTerminalAlwaysCreates(s, executor, appendFile, inv) ==
    LET isNewTerminal == TRUE
        s0 == IF isNewTerminal
              THEN [s EXCEPT !.terminal = s.nTerminals + 1, !.nTerminals = @ + 1]
              ELSE s
        s1 == [s0 EXCEPT !.sends = Append(@, [run |-> inv.run, term |-> s0.terminal,
                                              kind |-> "show", text |-> << >>])]
        command == getFinalCommandToRunCodeFile(changeExecutorFromCmdToPs(executor),
                                                appendFile, s1.codeFile, RootPath)
    IN  IF command = TypeError THEN [s1 EXCEPT !.out = "buildThrewInTerminal"]
        ELSE IF s1.config.clearPreviousOutput /\ ~isNewTerminal
             THEN [s1 EXCEPT !.clears = @ \cup
                                 { [run |-> inv.run,
                                    command |-> changeFilePathForBashOnWindows(
                                                    command, s1.config.terminalRoot)] },
                             !.out = "awaitClear"]
             ELSE sendCommand(s1, changeFilePathForBashOnWindows(
                                      command, s1.config.terminalRoot), inv)

\* The mutant of executeCommandInTerminal: the clear is also awaited on a terminal
\* the call has just created.
executeCommandInTerminalClearsAlways(s, executor, appendFile, inv) ==
    LET isNewTerminal == s.terminal = 0
        s0 == IF isNewTerminal
              THEN [s EXCEPT !.terminal = s.nTerminals + 1, !.nTerminals = @ + 1]
              ELSE s
        s1 == [s0 EXCEPT !.sends = Append(@, [run |-> inv.run, term |-> s0.terminal,
                                              kind |-> "show", text |-> << >>])]
        command == getFinalCommandToRunCodeFile(changeExecutorFromCmdToPs(executor),
                                                appendFile, s1.codeFile, RootPath)
    IN  IF command = TypeError THEN [s1 EXCEPT !.out = "buildThrewInTerminal"]
        ELSE IF s1.config.clearPreviousOutput
             THEN [s1 EXCEPT !.clears = @ \cup
                                 { [run |-> inv.run,
                                    command |-> changeFilePathForBashOnWindows(
                                                    command, s1.config.terminalRoot)] },
                             !.out = "awaitClear"]
             ELSE sendCommand(s1, changeFilePathForBashOnWindows(
                                      command, s1.config.terminalRoot), inv)

executeCommandInTerminal(s, executor, appendFile, inv) ==
    LET isNewTerminal == s.terminal = 0
        s0 == IF isNewTerminal
              THEN [s EXCEPT !.terminal = s.nTerminals + 1, !.nTerminals = @ + 1]
              ELSE s
        s1 == [s0 EXCEPT !.sends = Append(@, [run |-> inv.run, term |-> s0.terminal,
                                              kind |-> "show", text |-> << >>])]
        command == getFinalCommandToRunCodeFile(changeExecutorFromCmdToPs(executor),
                                                appendFile, s1.codeFile, RootPath)
    IN  IF command = TypeError THEN [s1 EXCEPT !.out = "buildThrewInTerminal"]
        ELSE IF s1.config.clearPreviousOutput /\ ~isNewTerminal
             THEN [s1 EXCEPT !.clears = @ \cup
                                 { [run |-> inv.run,
                                    command |-> changeFilePathForBashOnWindows(
                                                    command, s1.config.terminalRoot)] },
                             !.out = "awaitClear"]
             ELSE sendCommand(s1, changeFilePathForBashOnWindows(
                                      command, s1.config.terminalRoot), inv)

executeCommandInOutputChannel(s, executor, appendFile, inv) ==
    LET s1 == [s EXCEPT !.isRunning = TRUE]
        command == getFinalCommandToRunCodeFile(executor, appendFile, s1.codeFile, RootPath)
    IN  IF command = TypeError THEN [s1 EXCEPT !.out = "buildThrewInOutput"]
        ELSE [s1 EXCEPT !.procs = Append(@, [run |-> inv.run, command |-> command,
                                             cwd |-> s1.cwd, made |-> inv.made,
                                             live |-> TRUE, killed |-> FALSE]),
                        !.process = Len(s1.procs) + 1,
                        !.out = "spawned"]

\* The mutant of executeCommand: the terminal is chosen whatever this._isTmpFile.
executeCommandIgnoresTmpFile(s, executor, appendFile, inv) ==
    IF s.config.runInTerminal
    THEN executeCommandInTerminal(s, executor, appendFile, inv)
    ELSE executeCommandInOutputChannel(s, executor, appendFile, inv)

executeCommand(s, executor, appendFile, inv) ==
    IF s.config.runInTerminal /\ ~s.isTmpFile
    THEN executeCommandInTerminal(s, executor, appendFile, inv)
    ELSE executeCommandInOutputChannel(s, executor, appendFile, inv)

\* createRandomFile; written tells whether writeFileSync succeeded.
createRandomFile(s, folder, fileExtension, name, written) ==
    LET map == s.config.languageIdToFileExtensionMap
        fileType == IF Truthy(s.languageId) /\ Truthy(Lookup(map, s.languageId))
                    THEN Lookup(map, s.languageId)
                    ELSE IF Truthy(fileExtension) THEN fileExtension
                         ELSE << "." >> \o s.languageId
        tmpFileName == << "t", "e", "m", "p" >> \o name \o fileType
        path == join(folder, tmpFileName)
    IN  [s EXCEPT !.codeFile = path,
                  !.files = IF written THEN @ \cup { path } ELSE @]

\* The mutant of getCodeFileAndExecute: the save branches lack their return, so
\* the command is also dispatched at once.
getCodeFileAndExecuteNoReturn(s, editor, fileExtension, executor, appendFile, written) ==
    LET run == s.nRuns
        s0 == s
    IN  IF (editor.selEmpty \/ s0.config.ignoreSelection) /\ ~editor.isUntitled
        THEN LET s1 == [s0 EXCEPT !.isTmpFile = FALSE, !.codeFile = editor.fileName]
                 inv == [run |-> run, made |-> << >>]
                 pending == [run |-> run, executor |-> executor, appendFile |-> appendFile,
                             file |-> editor.fileName, cwd |-> s1.cwd,
                             mode |-> IF s1.config.runInTerminal
                                      THEN "terminal" ELSE "output",
                             kind |-> IF s1.config.saveAllFilesBeforeRun
                                      THEN "saveAll" ELSE "save"]
             IN  IF s1.config.saveAllFilesBeforeRun \/ s1.config.saveFileBeforeRun
                 THEN executeCommand([s1 EXCEPT !.saves = @ \cup { pending }],
                                     executor, appendFile, inv)
                 ELSE executeCommand(s1, executor, appendFile, inv)
        ELSE LET s1 == [s0 EXCEPT !.isTmpFile = TRUE]
                 folder == IF editor.isUntitled THEN s1.cwd ELSE dirname(editor.fileName)
                 s2 == createRandomFile(s1, folder, fileExtension, rndName(run), written)
                 inv == [run |-> run, made |-> s2.codeFile]
             IN  IF written THEN executeCommand(s2, executor, appendFile, inv)
                 ELSE [s2 EXCEPT !.out = "writeFailed"]

\* The mutant of getCodeFileAndExecute: a failed write of the temporary file is
\* swallowed and the command is dispatched all the same.
getCodeFileAndExecuteSwallowsWriteError(s, editor, fileExtension, executor, appendFile, written) ==
    LET run == s.nRuns
        s0 == s
    IN  IF (editor.selEmpty \/ s0.config.ignoreSelection) /\ ~editor.isUntitled
        THEN LET s1 == [s0 EXCEPT !.isTmpFile = FALSE, !.codeFile = editor.fileName]
                 inv == [run |-> run, made |-> << >>]
                 pending == [run |-> run, executor |-> executor, appendFile |-> appendFile,
                             file |-> editor.fileName, cwd |-> s1.cwd,
                             mode |-> IF s1.config.runInTerminal
                                      THEN "terminal" ELSE "output",
                             kind |-> IF s1.config.saveAllFilesBeforeRun
                                      THEN "saveAll" ELSE "save"]
             IN  IF s1.config.saveAllFilesBeforeRun \/ s1.config.saveFileBeforeRun
                 THEN [s1 EXCEPT !.saves = @ \cup { pending },
                                 !.out = "saving"]
                 ELSE executeCommand(s1, executor, appendFile, inv)
        ELSE LET s1 == [s0 EXCEPT !.isTmpFile = TRUE]
                 folder == IF editor.isUntitled THEN s1.cwd ELSE dirname(editor.fileName)
                 s2 == createRandomFile(s1, folder, fileExtension, rndName(run), written)
                 inv == [run |-> run, made |-> s2.codeFile]
             IN  IF written THEN executeCommand(s2, executor, appendFile, inv)
                 ELSE [executeCommand(s2, executor, appendFile, inv)
                          EXCEPT !.out = "writeFailed"]

\* getCodeFileAndExecute. The text written to the temporary file (and its php
\* prefix) is not part of the model: a file is its path. written tells whether
\* writeFileSync succeeded; when it throws, the handler ends there.
getCodeFileAndExecute(s, editor, fileExtension, executor, appendFile, written) ==
    LET run == s.nRuns
        s0 == s
    IN  IF (editor.selEmpty \/ s0.config.ignoreSelection) /\ ~editor.isUntitled
        THEN LET s1 == [s0 EXCEPT !.isTmpFile = FALSE, !.codeFile = editor.fileName]
                 inv == [run |-> run, made |-> << >>]
                 pending == [run |-> run, executor |-> executor, appendFile |-> appendFile,
                             file |-> editor.fileName, cwd |-> s1.cwd,
                             mode |-> IF s1.config.runInTerminal
                                      THEN "terminal" ELSE "output",
                             kind |-> IF s1.config.saveAllFilesBeforeRun
                                      THEN "saveAll" ELSE "save"]
             IN  IF s1.config.saveAllFilesBeforeRun \/ s1.config.saveFileBeforeRun
                 THEN [s1 EXCEPT !.saves = @ \cup { pending },
                                 !.out = "saving"]
                 ELSE executeCommand(s1, executor, appendFile, inv)
        ELSE LET s1 == [s0 EXCEPT !.isTmpFile = TRUE]
                 folder == IF editor.isUntitled THEN s1.cwd ELSE dirname(editor.fileName)
                 s2 == createRandomFile(s1, folder, fileExtension, rndName(run), written)
                 inv == [run |-> run, made |-> s2.codeFile]
             IN  IF written THEN executeCommand(s2, executor, appendFile, inv)
                 ELSE [s2 EXCEPT !.out = "writeFailed"]

\* The mode an invocation with this editor under this configuration asks for:
\* the terminal when runInTerminal is set and the file on disk is run.
WouldDispatch(editor, cfg) ==
    IF editor.none THEN "none"
    ELSE IF cfg.runInTerminal /\ (editor.selEmpty \/ cfg.ignoreSelection) /\ ~editor.isUntitled
         THEN "terminal"
         ELSE "output"

\* The mutant of run: the guard spares the invocations that ask for the terminal.
runGuardsOutputOnly(s, editor, cfg, langArg, written) ==
    IF s.isRunning /\ WouldDispatch(editor, cfg) # "terminal" THEN [s EXCEPT !.out = "rejected"]
    ELSE IF editor.none THEN [s EXCEPT !.out = "noEditor"]
    ELSE LET s1 == initialize([s EXCEPT !.nRuns = @ + 1], editor, cfg)
             fileExtension == getFileExtension(editor.fileName)
             r == getExecutor(s1.config, editor.languageId, langArg, fileExtension)
             s2 == [s1 EXCEPT !.languageId = r.languageId]
         IN  IF IsNullish(r.executor) THEN [s2 EXCEPT !.out = "unsupported"]
             ELSE getCodeFileAndExecute(s2, editor, fileExtension, r.executor, TRUE, written)

\* The mutant of run: the guard on this._isRunning is missing.
runUnguarded(s, editor, cfg, langArg, written) ==
    IF editor.none THEN [s EXCEPT !.out = "noEditor"]
    ELSE LET s1 == initialize([s EXCEPT !.nRuns = @ + 1], editor, cfg)
             fileExtension == getFileExtension(editor.fileName)
             r == getExecutor(s1.config, editor.languageId, langArg, fileExtension)
             s2 == [s1 EXCEPT !.languageId = r.languageId]
         IN  IF IsNullish(r.executor) THEN [s2 EXCEPT !.out = "unsupported"]
             ELSE getCodeFileAndExecute(s2, editor, fileExtension, r.executor, TRUE, written)

\* run(languageId) with the active editor and the configuration as they are.
run(s, editor, cfg, langArg, written) ==
    IF s.isRunning THEN [s EXCEPT !.out = "rejected"]
    ELSE IF editor.none THEN [s EXCEPT !.out = "noEditor"]
    ELSE LET s1 == initialize([s EXCEPT !.nRuns = @ + 1], editor, cfg)
             fileExtension == getFileExtension(editor.fileName)
             r == getExecutor(s1.config, editor.languageId, langArg, fileExtension)
             s2 == [s1 EXCEPT !.languageId = r.languageId]
         IN  IF IsNullish(r.executor) THEN [s2 EXCEPT !.out = "unsupported"]
             ELSE getCodeFileAndExecute(s2, editor, fileExtension, r.executor, TRUE, written)

runCustomCommand(s, editor, cfg, written) ==
    IF s.isRunning THEN [s EXCEPT !.out = "rejected"]
    ELSE LET s1 == initialize([s EXCEPT !.nRuns = @ + 1], editor, cfg)
             executor == s1.config.customCommand
         IN  IF ~editor.none
             THEN getCodeFileAndExecute(s1, editor, getFileExtension(editor.fileName),
                                        executor, FALSE, written)
             ELSE executeCommand(s1, executor, FALSE, [run |-> s1.nRuns, made |-> << >>])

\* stop: kill(this._process.pid) throws when this._process is undefined.
stop(s) ==
    IF s.isRunning
    THEN IF s.process = 0
         THEN [s EXCEPT !.isRunning = FALSE, !.out = "killThrew"]
         ELSE [s EXCEPT !.isRunning = FALSE, !.procs[s.process].killed = TRUE,
                        !.out = "killed"]
    ELSE [s EXCEPT !.out = "idle"]

\* The close handler of child p. It reads this._isTmpFile and this._codeFile as
\* they are when the event arrives.
onClose(s, p) ==
    LET s1 == [s EXCEPT !.isRunning = FALSE, !.procs[p].live = FALSE]
    IN  IF s1.isTmpFile
        THEN [s1 EXCEPT !.unlinked = Append(@, s1.codeFile),
                        !.files = @ \ { s1.codeFile }, !.out = "unlinked"]
        ELSE [s1 EXCEPT !.out = "closed"]

onDidCloseTerminal(s) == [s EXCEPT !.terminal = 0, !.out = "dropped"]

(***************************************************************************)
(* The events                                                              *)
(***************************************************************************)

\* The session after the constructor. Before initialize, this._config is
\* undefined; no handler reads it then.
InitSession ==
    /\ terminal = 0
    /\ isRunning = FALSE
    /\ process = 0
    /\ codeFile = Undefined
    /\ isTmpFile = FALSE
    /\ languageId = Undefined
    /\ cwd = Undefined
    /\ config = BaseSettings
    /\ procs = << >>
    /\ saves = {}
    /\ clears = {}
    /\ files = {}
    /\ unlinked = << >>
    /\ sends = << >>
    /\ nTerminals = 0
    /\ nRuns = 0
    /\ event = [op |-> "none", out |-> "none", would |-> "none"]

Init ==
    /\ InitSession
    /\ pin = << >>

\* run(languageId) with editor active and cfg the configuration in force.
Run(editor, cfg, langArg, written) ==
    LET s == run(Session, editor, cfg, langArg, written)
    IN  /\ nRuns < MaxRuns \/ ((isRunning \/ editor.none) /\ s.nRuns = nRuns)
        /\ Commit(s, "run", WouldDispatch(editor, cfg))
        /\ UNCHANGED pin

RunCustomCommand(editor, cfg, written) ==
    LET s == runCustomCommand(Session, editor, cfg, written)
    IN  /\ nRuns < MaxRuns \/ (isRunning /\ s.nRuns = nRuns)
        /\ Commit(s, "runCustomCommand", WouldDispatch(editor, cfg))
        /\ UNCHANGED pin

Stop ==
    /\ Commit(stop(Session), "stop", "none")
    /\ UNCHANGED pin

\* A save promise resolves: its continuation calls executeCommand.
SaveDone(sv) ==
    /\ Commit(executeCommand([Session EXCEPT !.saves = @ \ { sv }], sv.executor,
                             sv.appendFile, [run |-> sv.run, made |-> << >>]),
              "saveDone", "none")
    /\ UNCHANGED pin

\* A save promise rejects: the continuation never runs.
SaveFail(sv) ==
    /\ Commit([Session EXCEPT !.saves = @ \ { sv }, !.out = "saveFailed"], "saveFail", "none")
    /\ UNCHANGED pin

\* The awaited workbench.action.terminal.clear completes.
ClearDone(c) ==
    /\ Commit(sendCommand([Session EXCEPT !.clears = @ \ { c }], c.command,
                          [run |-> c.run, made |-> << >>]),
              "clearDone", "none")
    /\ UNCHANGED pin

\* Child p reports close (it exited, or it was killed).
Close(p) ==
    /\ procs[p].live
    /\ Commit(onClose(Session, p), "close", "none")
    /\ UNCHANGED pin

OnDidCloseTerminal ==
    /\ Commit(onDidCloseTerminal(Session), "onDidCloseTerminal", "none")
    /\ UNCHANGED pin

\* The outcomes of writeFileSync: it is called, and can fail, only when the
\* invocation writes a temporary file.
WriteOutcomes(editor, cfg) ==
    IF ~editor.none /\ ~((editor.selEmpty \/ cfg.ignoreSelection) /\ ~editor.isUntitled)
    THEN BOOLEAN
    ELSE { TRUE }

Next ==
    \/ \E editor \in Editors, cfg \in SettingsSet, langArg \in LangArgs :
           \E written \in WriteOutcomes(editor, cfg) : Run(editor, cfg, langArg, written)
    \/ \E editor \in Editors, cfg \in SettingsSet :
           \E written \in WriteOutcomes(editor, cfg) : RunCustomCommand(editor, cfg, written)
    \/ Stop
    \/ \E sv \in saves : SaveDone(sv)
    \/ \E sv \in saves : SaveFail(sv)
    \/ \E c \in clears : ClearDone(c)
    \/ \E p \in 1..Len(procs) : Close(p)
    \/ OnDidCloseTerminal

Spec == Init /\ [][Next]_vars

\* The session with the close events delivered: a child that is live exits or
\* dies in the end, and the event loop then calls its close handler.
SpecLive == Spec /\ WF_vars(\E p \in 1..Len(procs) : Close(p))

(***************************************************************************)
(* The executor resolver on its own: getExecutor applied to every bounded  *)
(* configuration and argument.                                             *)
(***************************************************************************)

LangQ == << "q" >>
LangZ == << "z" >>
ExtP == << ".", "p" >>
ExtZ == << ".", "z" >>
TemplateR == << "r" >>
TemplateX == << "x" >>

\* The objects with keys among keys and values among values.
Maps(keys, values) == UNION { [ks -> values] : ks \in SUBSET keys }

ResolveConfigs ==
    [executorMap : Maps({ LangP, LangQ }, { Null, << >>, TemplateR }),
     executorMapByFileExtension : Maps({ << >>, ExtP }, { Null, TemplateX }),
     defaultLanguage : { << >>, LangP, LangQ, LangZ }]

ResolveInputs ==
    [cfg : ResolveConfigs, docLanguageId : { LangP, LangZ },
     langArg : { Null, LangP, LangQ }, fileExtension : { << >>, ExtP, ExtZ }]

InitResolve ==
    /\ InitSession
    /\ \E in \in ResolveInputs : pin = [in |-> in, done |-> FALSE, executor |-> Undefined,
                                       languageId |-> Undefined]

Resolve ==
    /\ ~pin.done
    /\ LET r == getExecutor(pin.in.cfg, pin.in.docLanguageId, pin.in.langArg,
                            pin.in.fileExtension)
       IN  pin' = [pin EXCEPT !.done = TRUE, !.executor = r.executor,
                              !.languageId = r.languageId]
    /\ UNCHANGED << terminal, isRunning, process, codeFile, isTmpFile, languageId, cwd, config,
                    procs, saves, clears, files, unlinked, sends, nTerminals, nRuns, event >>

NextResolve == Resolve

SpecResolve == InitResolve /\ [][NextResolve]_vars

(***************************************************************************)
(* The command builder on its own: getFinalCommandToRunCodeFile applied to *)
(* bounded templates and code file paths, with and without appendFile.     *)
(***************************************************************************)

Space == << " " >>

\* Templates: without placeholder, with $fileName only, with the others.
BuildTemplates ==
    { TemplateR,
      << "a", " ", "-", "b" >>,
      PFileName,
      TemplateR \o Space \o PFileName,
      PFileName \o Space \o PFileName,
      TemplateR \o Space \o PFullFileName,
      TemplateR \o Space \o PFileNameWithoutExt,
      PDir \o PFileNameWithoutExt,
      << "c", "d", " " >> \o PDirWithoutTrailingSlash,
      PWorkspaceRoot \o << "/", "x" >> }

\* Code file paths: with an extension, without one, with backslashes, with a
\* "." in the directory only.
BuildPaths ==
    { FileA, FileM,
      << "C", ":", "\\", "w", "\\", "a", ".", "p" >>,
      << "/", "w", ".", "d", "/", "m" >> }

BuildInputs ==
    [executor : BuildTemplates, path : BuildPaths, rootPath : { Undefined, RootPath }]

NotBuilt == << "not built" >>

InitBuild ==
    /\ InitSession
    /\ \E in \in BuildInputs : pin = [in |-> in, appended |-> NotBuilt, plain |-> NotBuilt]

\* build with appendFile = true.
BuildAppended ==
    /\ pin.appended = NotBuilt
    /\ pin' = [pin EXCEPT !.appended = getFinalCommandToRunCodeFile(
                                           pin.in.executor, TRUE, pin.in.path, pin.in.rootPath)]
    /\ UNCHANGED << terminal, isRunning, process, codeFile, isTmpFile, languageId, cwd, config,
                    procs, saves, clears, files, unlinked, sends, nTerminals, nRuns, event >>

\* build with appendFile = false.
BuildPlain ==
    /\ pin.plain = NotBuilt
    /\ pin' = [pin EXCEPT !.plain = getFinalCommandToRunCodeFile(
                                        pin.in.executor, FALSE, pin.in.path, pin.in.rootPath)]
    /\ UNCHANGED << terminal, isRunning, process, codeFile, isTmpFile, languageId, cwd, config,
                    procs, saves, clears, files, unlinked, sends, nTerminals, nRuns, event >>

NextBuild == BuildAppended \/ BuildPlain

SpecBuild == InitBuild /\ [][NextBuild]_vars

(***************************************************************************)
(* The claims                                                              *)
(***************************************************************************)

\* The fields of the session and what it has done to its collaborators.
sessionVars ==
    << terminal, isRunning, process, codeFile, isTmpFile, languageId, cwd, config, procs,
       saves, clears, files, unlinked, sends, nTerminals, nRuns >>

RunOps == { "run", "runCustomCommand" }

\* The children that were started and have neither reported close nor been stopped.
Running == { p \in 1..Len(procs) : procs[p].live /\ ~procs[p].killed }

\* The step enters executeCommandInTerminal (from run, runCustomCommand or the
\* continuation of a save).
EntersTerminal ==
    /\ event'.op \in RunOps \cup { "saveDone" }
    /\ event'.out \in { "sent", "awaitClear", "buildThrewInTerminal" }

\* C1: in every reachable state at most one output-channel run is Running: at
\* most one child process of the session has been started and has neither
\* reported close nor been stopped.
C1_AtMostOneRunning == Cardinality(Running) <= 1

\* C2: a run or runCustomCommand invoked while the running flag is set is
\* rejected and is a no-op: no process is spawned, nothing is sent to a terminal,
\* no file is written and no session field changes.
C2_RejectedRunIsNoOp ==
    [][(isRunning /\ event'.op \in RunOps)
         => (event'.out = "rejected" /\ UNCHANGED sessionVars)]_vars

\* C2's case: a run was rejected while the child of the run in flight is live.
C2_Witness ==
    /\ event.op = "run"
    /\ event.out = "rejected"
    /\ isRunning
    /\ process # 0
    /\ procs[process].live

\* C3: stop invoked while a run is Running (the running flag is set) issues a
\* kill for the process of that run, a live child not yet stopped, and leaves
\* the session Idle without waiting for the close event; stop invoked while the
\* session is Idle kills nothing and changes no session state.
C3_StopKillsTheRunningProcess ==
    [][event'.op = "stop"
         => IF isRunning
            THEN /\ process # 0
                 /\ procs[process].live
                 /\ ~procs[process].killed
                 /\ procs'[process].killed
                 /\ procs'[process].live
                 /\ ~isRunning'
            ELSE UNCHANGED sessionVars]_vars

\* C4: a temporary file is scoped to one run: it is on disk when the process of
\* the run that created it is spawned, and when that process reports close the
\* same file is deleted.
C4_CloseDeletesItsTemporaryFile ==
    [][\A p \in 1..Len(procs') :
          procs'[p].made # << >>
            => /\ p > Len(procs) => procs'[p].made \in files'
               /\ (p <= Len(procs) /\ procs[p].live /\ ~procs'[p].live)
                    => procs[p].made \notin files']_vars

\* C5: with save-before-run configured and the file on disk used, nothing of the
\* run is dispatched (no child spawned, nothing sent, no clear awaited) while
\* its save is pending, and its dispatch is a step of the save's continuation.
C5_DispatchOnlyAfterSave ==
    /\ [](\A sv \in saves :
            /\ \A p \in 1..Len(procs) : procs[p].run # sv.run
            /\ \A i \in 1..Len(sends) : sends[i].run # sv.run
            /\ \A c \in clears : c.run # sv.run)
    /\ [][\A sv \in saves :
            (\/ \E p \in 1..Len(procs') : procs'[p].run = sv.run
             \/ \E i \in 1..Len(sends') : sends'[i].run = sv.run
             \/ \E c \in clears' : c.run = sv.run)
              => (event'.op = "saveDone" /\ sv \notin saves')]_vars

\* C5's case: the continuation of one save has spawned the run's child while
\* another save is still pending.
C5_Witness ==
    /\ event.op = "saveDone"
    /\ event.out = "spawned"
    /\ saves # {}

\* C6: a terminal-mode run creates a terminal iff the session holds none, and
\* otherwise reuses the held one; nothing else creates a terminal, and only the
\* close notification drops the reference, which it always does.
C6_TerminalCreatedIffNoneHeld ==
    /\ [][EntersTerminal
            => IF terminal = 0
               THEN nTerminals' = nTerminals + 1 /\ terminal' = nTerminals'
               ELSE nTerminals' = nTerminals /\ terminal' = terminal]_vars
    /\ [][nTerminals' # nTerminals => EntersTerminal]_vars
    /\ [][event'.op = "onDidCloseTerminal" => terminal' = 0]_vars
    /\ [][(terminal # 0 /\ terminal' = 0) => event'.op = "onDidCloseTerminal"]_vars

\* C6's case: after a close notification a terminal-mode run has created the
\* second terminal and sent its command to it.
C6_Witness ==
    /\ nTerminals = 2
    /\ terminal = 2
    /\ event.out = "sent"
    /\ sends[Len(sends)].term = 2

\* C7: a command is dispatched in terminal mode only when runInTerminal is
\* configured and the code file is not temporary, and the dispatch (also its
\* part after the awaited clear) leaves the running flag, the process reference
\* and the children alone; a stop on a session that never ran in the output
\* channel kills nothing.
C7_TerminalModeRetainsNoProcess ==
    /\ [][EntersTerminal => (config'.runInTerminal /\ ~isTmpFile')]_vars
    /\ [][(EntersTerminal \/ event'.op = "clearDone")
            => UNCHANGED << isRunning, process, procs >>]_vars
    /\ [][(event'.op = "stop" /\ process = 0 /\ ~isRunning)
            => (event'.out = "idle" /\ UNCHANGED sessionVars)]_vars

\* C7's case: stop was invoked after terminal-mode runs only.
C7_Witness ==
    /\ event.op = "stop"
    /\ event.out = "idle"
    /\ sends # << >>
    /\ procs = << >>
    /\ ~isRunning
    /\ process = 0

\* The first lookup of the chain: executorMap[languageId], the language id
\* defaulting to the active document's.
FirstLanguage(in) == IF in.langArg = Null THEN in.docLanguageId ELSE in.langArg
ByLanguage(in) == Lookup(in.cfg.executorMap, FirstLanguage(in))
ByExtension(in) ==
    IF in.fileExtension # << >>
    THEN Lookup(in.cfg.executorMapByFileExtension, in.fileExtension)
    ELSE Null
ByDefault(in) == Lookup(in.cfg.executorMap, in.cfg.defaultLanguage)

\* C8: resolve follows the fallback chain: executorMap[languageId] when that is
\* non-null; else, for a non-empty fileExtension with a non-null
\* executorMapByFileExtension entry, that entry, the extension becoming the
\* language id; else executorMap[defaultLanguage], defaultLanguage becoming the
\* language id; it returns null exactly when none of the three yields an entry.
C8_ResolveFollowsChain ==
    pin.done =>
        /\ IF ~IsNullish(ByLanguage(pin.in))
           THEN pin.executor = ByLanguage(pin.in)
           ELSE IF ~IsNullish(ByExtension(pin.in))
                THEN pin.executor = ByExtension(pin.in) /\ pin.languageId = pin.in.fileExtension
                ELSE pin.executor = ByDefault(pin.in)
                     /\ pin.languageId = pin.in.cfg.defaultLanguage
        /\ IsNullish(pin.executor)
             <=> (IsNullish(ByLanguage(pin.in)) /\ IsNullish(ByExtension(pin.in))
                  /\ IsNullish(ByDefault(pin.in)))

\* C8's case: the language has no executor and the extension's entry was taken.
C8_Witness ==
    /\ pin.done
    /\ IsNullish(ByLanguage(pin.in))
    /\ pin.executor = TemplateX
    /\ pin.languageId = ExtP

AllPlaceholders ==
    { PWorkspaceRoot, PFileNameWithoutExt, PFullFileName, PFileName, PDirWithoutTrailingSlash,
      PDir }

\* The text of path after its last separator.
BaseName(path) == SubSeq(path, lastIndexOf(path, Separators) + 1, Len(path))

\* C9: for a template without placeholder, build with appendFile=true returns
\* template + " " + quoted(codeFile) and with appendFile=false the template; for
\* a template with $fileName and no other placeholder, build returns the same
\* substituted string for both.
C9_AppendOnlyWithoutPlaceholder ==
    (pin.appended # NotBuilt /\ pin.plain # NotBuilt) =>
        /\ (\A ph \in AllPlaceholders : ~Contains(pin.in.executor, ph))
             => /\ pin.appended = pin.in.executor \o Space \o quoteFileName(pin.in.path)
                /\ pin.plain = pin.in.executor
        /\ (/\ Contains(pin.in.executor, PFileName)
            /\ \A ph \in AllPlaceholders \ { PFileName } : ~Contains(pin.in.executor, ph))
             => /\ pin.appended = replace(pin.in.executor, PFileName, BaseName(pin.in.path))
                /\ pin.plain = pin.appended

\* C10, as claimed: a run invocation that asks for the terminal, issued while
\* an output-channel run is Running (the flag is set, its child is live and not
\* stopped), sends its command to the terminal.
C10_TerminalRunWhileRunningSends ==
    [][(isRunning /\ process \in Running /\ event'.op = "run" /\ event'.would = "terminal")
         => (Len(sends') > Len(sends) /\ sends'[Len(sends')].kind = "cmd")]_vars

\* C10, amended: the guard holds for terminal-mode invocations too. A run
\* invocation that asks for the terminal, issued while the running flag is set,
\* is rejected: nothing is sent, no clear is awaited, no terminal is created.
C10_TerminalRunWhileRunningRejected ==
    [][(isRunning /\ event'.op = "run" /\ event'.would = "terminal")
         => (event'.out = "rejected" /\ UNCHANGED << sends, clears, terminal, nTerminals >>)]_vars

\* C10's case: a run that asks for the terminal was rejected while the child of
\* the output-channel run is live.
C10_Witness ==
    /\ event = [op |-> "run", out |-> "rejected", would |-> "terminal"]
    /\ isRunning
    /\ process # 0
    /\ procs[process].live
    /\ ~procs[process].killed

\* The fields of the ExecutionContext.
contextVars == << languageId, cwd, codeFile, isTmpFile, isRunning >>

\* What the session has launched, sent, or left pending.
dispatchVars == << procs, process, sends, clears, saves, terminal, nTerminals >>

\* C11: a run that ends in a user-input error detected before dispatch (no
\* active editor; no executor after the whole fallback chain) launches no
\* process, sends nothing, and leaves every ExecutionContext field (language
\* id, working directory, code file, temp flag, running flag) as it was.
C11_PreDispatchErrorsLeaveContextClean ==
    [][(event'.op = "run" /\ event'.out \in { "noEditor", "unsupported" })
         => (UNCHANGED dispatchVars /\ UNCHANGED contextVars)]_vars

\* The run numbers of what the step dispatched: the children it spawned, the
\* texts it sent, the clears it began to await.
DispatchedRuns ==
    { procs'[p].run : p \in (Len(procs) + 1)..Len(procs') }
      \cup { sends'[i].run : i \in (Len(sends) + 1)..Len(sends') }
      \cup { c.run : c \in clears' \ clears }

\* C12: when the write of the temporary file fails or the save before the run
\* fails, the run does not proceed to execution. The failing step spawns no
\* child, sends nothing, awaits no clear and leaves the running flag and the
\* process reference alone; the failed save's continuation is gone; and
\* whatever is dispatched for a run is dispatched by that run's own invocation
\* (not one whose write failed), by the continuation of its pending save, or by
\* the continuation of its awaited clear, so a failed run never executes later.
C12_FailedWriteOrSaveDoesNotExecute ==
    /\ [][(event'.out = "writeFailed" \/ event'.op = "saveFail")
            => (/\ DispatchedRuns = {}
                /\ UNCHANGED << isRunning, process, procs, sends, clears, terminal >>
                /\ saves' \subseteq saves)]_vars
    /\ [][\A sv \in saves : (event'.op = "saveFail" /\ sv \notin saves')
                              => \A sw \in saves' : sw.run # sv.run]_vars
    /\ [][\A r \in DispatchedRuns :
            \/ event'.op \in RunOps /\ r = nRuns' /\ nRuns' = nRuns + 1
                 /\ event'.out # "writeFailed"
            \/ event'.op = "saveDone" /\ \E sv \in saves \ saves' : sv.run = r
            \/ event'.op = "clearDone" /\ \E c \in clears \ clears' : c.run = r]_vars

\* C12's case: the first run waits for its save, the second run's temporary
\* file could not be written, and then the save failed; nothing was executed.
C12_Witness ==
    /\ event.op = "saveFail"
    /\ nRuns = 2
    /\ isTmpFile
    /\ codeFile \notin files
    /\ saves = {}
    /\ procs = << >>
    /\ sends = << >>
    /\ ~isRunning

\* The commands the step dispatched: of the children it spawned, of the texts
\* it sent as commands, of the clears it began to await.
DispatchedCommands ==
    { procs'[p].command : p \in (Len(procs) + 1)..Len(procs') }
      \cup { sends'[i].text : i \in { j \in (Len(sends) + 1)..Len(sends') :
                                        sends'[j].kind = "cmd" } }
      \cup { c.command : c \in clears' \ clears }

\* C13: every run or runCustomCommand invocation that goes on to dispatch
\* chooses its mode and builds its command from the code file and the temp flag
\* of that invocation, never from those an earlier invocation left. With an
\* editor, the mode is the one the editor and the configuration ask for. With
\* no active editor (runCustomCommand), there is no code file and no temporary
\* file: the mode is the terminal iff runInTerminal is configured and the
\* command is customCommand.
C13_DispatchUsesOwnContext ==
    [][(event'.op \in RunOps /\ event'.out \notin { "rejected", "noEditor", "unsupported" })
         => CASE event'.would = "terminal"
                   -> event'.out \in { "sent", "awaitClear", "buildThrewInTerminal", "saving" }
              [] event'.would = "output"
                   -> event'.out \in { "spawned", "buildThrewInOutput", "writeFailed",
                                       "saving" }
              [] event'.would = "none"
                   -> /\ event'.out \in (IF config'.runInTerminal
                                         THEN { "sent", "awaitClear" }
                                         ELSE { "spawned" })
                      /\ DispatchedCommands = { config'.customCommand }]_vars

\* The calls on the terminal the step made, in order.
NewSends == SubSeq(sends', Len(sends) + 1, Len(sends'))

\* The kinds of the calls a dispatch makes from the optional cd on, under the
\* configuration the session holds.
CdThenCommand == IF config'.fileDirectoryAsCwd THEN << "cd", "cmd" >> ELSE << "cmd" >>

\* C14: the terminal actions of a terminal-mode run occur in the order show,
\* clear (optional), cd (optional), command. A call of executeCommandInTerminal
\* shows the terminal first; it awaits a clear exactly when clearPreviousOutput
\* is configured and it reused the terminal it found, never when it created
\* one; while the clear is awaited no text of that run has been sent, and its
\* texts follow in the step that ends the clear; the cd text is sent iff
\* fileDirectoryAsCwd is configured (in the configuration the session holds
\* when it sends) and is directly followed by the command text of the same run.
C14_TerminalActionsInOrder ==
    /\ [][(EntersTerminal /\ event'.out # "buildThrewInTerminal")
            => /\ \A i \in 1..Len(NewSends) :
                    NewSends[i].run = NewSends[1].run /\ NewSends[i].term = terminal'
               /\ IF config'.clearPreviousOutput /\ terminal # 0
                  THEN /\ [i \in 1..Len(NewSends) |-> NewSends[i].kind] = << "show" >>
                       /\ \E c \in clears' \ clears : c.run = NewSends[1].run
                       /\ terminal' = terminal
                  ELSE /\ [i \in 1..Len(NewSends) |-> NewSends[i].kind]
                            = << "show" >> \o CdThenCommand
                       /\ clears' = clears]_vars
    /\ [][clears' \ clears # {}
            => (EntersTerminal /\ config'.clearPreviousOutput /\ terminal # 0
                  /\ nTerminals' = nTerminals)]_vars
    /\ [](\A c \in clears :
            \A i \in 1..Len(sends) : sends[i].run = c.run => sends[i].kind = "show")
    /\ [][(event'.op = "clearDone" /\ event'.out = "sent")
            => /\ [i \in 1..Len(NewSends) |-> NewSends[i].kind] = CdThenCommand
               /\ \E c \in clears \ clears' :
                     \A i \in 1..Len(NewSends) : NewSends[i].run = c.run]_vars
    /\ [](\A i \in 1..Len(sends) :
            sends[i].kind = "cd"
              => (i < Len(sends) /\ sends[i + 1].kind = "cmd"
                    /\ sends[i + 1].run = sends[i].run))

\* C14's case: a run found the terminal that an earlier dispatch had created
\* and written to, showed it and awaited the clear; the clear has ended and the
\* run's cd and command were sent, in that order.
C14_Witness ==
    /\ event.op = "clearDone"
    /\ event.out = "sent"
    /\ Len(sends) >= 5
    /\ sends[Len(sends)].kind = "cmd"
    /\ sends[Len(sends) - 1].kind = "cd"
    /\ sends[Len(sends) - 2].kind = "show"
    /\ sends[Len(sends) - 1].run = sends[Len(sends)].run
    /\ sends[Len(sends) - 2].run = sends[Len(sends)].run
    /\ \E i \in 1..Len(sends) : sends[i].kind = "cmd" /\ sends[i].run # sends[Len(sends)].run

\* C15: once an output-channel run is Running, the session returns to Idle
\* only through stop or through the close event of the process of that run; no
\* other event clears the running flag; the close event always leaves the
\* session Idle, and with the close events delivered a Running session is Idle
\* in the end.
C15_IdleOnlyThroughStopOrClose ==
    /\ [][(isRunning /\ ~isRunning')
            => \/ event'.op = "stop"
               \/ /\ event'.op = "close"
                  /\ process # 0
                  /\ procs[process].live
                  /\ ~procs'[process].live]_vars
    /\ [][event'.op = "close" => ~isRunning']_vars
    /\ (isRunning /\ process \in Running) ~> ~isRunning

\* C15, the part about the flag alone: only stop and close steps clear it,
\* every close step leaves it clear, and a Running session is Idle in the end.
C15_FlagClearedOnlyByStopOrClose ==
    /\ [][(isRunning /\ ~isRunning') => event'.op \in { "stop", "close" }]_vars
    /\ [][event'.op = "close" => ~isRunning']_vars
    /\ (isRunning /\ process \in Running) ~> ~isRunning

\* C16: the close event of a child ends only the run that spawned it: whenever
\* a spawned child is live and has not been stopped, the running flag is set.
C16_LiveUnstoppedChildImpliesRunning == Running # {} => isRunning

\* The command the invocation that left the pending save sv asked for: built
\* from its executor and the file it chose (the platform adapters change
\* nothing on this host).
CommandOf(sv) == getFinalCommandToRunCodeFile(sv.executor, sv.appendFile, sv.file, RootPath)

\* C17: a run is bound to the code file chosen at its invocation. When the
\* save of a run on the on-disk file F completes, the command dispatched is
\* the one built for F, in the mode (terminal iff runInTerminal was configured)
\* and with the working directory determined at that invocation, whatever
\* other invocations happened while the save was pending.
C17_SaveContinuationRunsItsOwnFile ==
    [][\A sv \in saves \ saves' :
          event'.op = "saveDone"
            => IF CommandOf(sv) = TypeError
               THEN event'.out = (IF sv.mode = "terminal" THEN "buildThrewInTerminal"
                                  ELSE "buildThrewInOutput")
               ELSE /\ DispatchedCommands = { CommandOf(sv) }
                    /\ event'.out \in (IF sv.mode = "terminal" THEN { "sent", "awaitClear" }
                                       ELSE { "spawned" })
                    /\ sv.mode = "output" => procs'[Len(procs')].cwd = sv.cwd
                    /\ \A i \in 1..Len(NewSends) :
                          NewSends[i].kind = "cd"
                            => NewSends[i].text = << "c", "d", " " >> \o quoteFileName(sv.cwd)]_vars

\* C18: text is only ever sent to a live terminal the session holds: the
\* continuation of an awaited clear finds a terminal reference to send to (it
\* never calls sendText on the null reference a close notification left), and
\* every text goes to the terminal held at that moment.
C18_SendsOnlyToHeldTerminal ==
    [][/\ event'.op = "clearDone" => (terminal # 0 /\ event'.out = "sent")
       /\ event'.out # "sendThrew"
       /\ \A i \in 1..Len(NewSends) : NewSends[i].term # 0 /\ NewSends[i].term = terminal']_vars

\* The paths createRandomFile has written in this session: those still on
\* disk and those of the children spawned on them.
Written == files \cup { procs[p].made : p \in { q \in 1..Len(procs) : procs[q].made # << >> } }

\* C19: the session deletes only temporary files it created itself: the path a
\* close handler passes to unlink is a path that createRandomFile has written
\* in this session, never the path of a document on disk.
C19_UnlinksOnlyWrittenTemporaryFiles ==
    [][Len(unlinked') > Len(unlinked)
         => /\ event'.op = "close"
            /\ unlinked'[Len(unlinked')] \in Written
            /\ unlinked'[Len(unlinked')] \notin { FileA, FileM }]_vars

\* C19, the part about the user's documents alone: no path handed to unlink is
\* the path of a document on disk.
C19_NeverUnlinksADocument ==
    \A i \in 1..Len(unlinked) : unlinked[i] \notin { FileA, FileM }

\* The orders in which the six replacements can be applied: order[k] is the
\* index, in the placeholders array of the source, of the k-th one applied.
PlaceholderOrders == Permutations(1..6)

\* The orders that replace $fileNameWithoutExt (2) before $fileName (4) and
\* $dirWithoutTrailingSlash (5) before $dir (6).
Before(order, a, b) == \E i, j \in 1..6 : i < j /\ order[i] = a /\ order[j] = b
LongerFirstOrders == { order \in PlaceholderOrders : Before(order, 2, 4) /\ Before(order, 5, 6) }

\* build with the six global replacements applied in the given order.
BuildInOrder(executor, appendFile, path, rootPath, order) ==
    IF Truthy(path) /\ PlaceholdersThrow(path) THEN TypeError
    ELSE LET ph == Placeholders(path, rootPath)
             cmd == IF Truthy(path)
                    THEN ReplaceEach(executor, [k \in 1..6 |-> ph[order[k]]], 1)
                    ELSE executor
         IN  IF cmd # executor THEN cmd
             ELSE executor \o (IF appendFile THEN << " " >> \o quoteFileName(path) ELSE << >>)

====
